---- MODULE Spec2Model ----
(***************************************************************************)
(* Model of the library management program in src/main.py: the in-memory   *)
(* Books / Loans ("users") / Logs tables, the menu loop of main() and the  *)
(* handlers add_book, issue_book, return_book, view_books,                 *)
(* visualize_top_books, export_logs, plus ensure_files/load_data/save_data *)
(* acting on the data directory.                                           *)
(*                                                                         *)
(* Text typed by the user is a sequence of one-character strings, so that  *)
(* str.strip() and int() are computed and not assumed.  Timestamps are     *)
(* integer ticks, TicksPerDay ticks to a day, so that Timedelta.days       *)
(* really discards a fraction.                                             *)
(***************************************************************************)
EXTENDS Integers, Sequences, FiniteSets, TLC

VARIABLES books, users, logs, now, pc, out, fine, display, last, disk

vars == <<books, users, logs, now, pc, out, fine, display, last, disk>>

(* ------------------------------ bounds --------------------------------- *)
MaxLoans == 2

(* --------------------------- program constants ------------------------- *)
FINE_PER_DAY == 5
GraceDays == 14
TopN == 5

(* resolution of a timestamp: two ticks make one day, so that a difference *)
(* of timestamps can hold half a day                                        *)
TicksPerDay == 2

(* the clock is read after fourteen and a half or fifteen and a half days   *)
ClockSteps == { TicksPerDay * GraceDays + 1, TicksPerDay * (GraceDays + 1) + 1 }
MaxNow == TicksPerDay * (GraceDays + 1) + 1

(* the absent timestamp pd.NaT *)
NaT == -1

(* ------------------------------ user input ----------------------------- *)
ChoiceInputs == { <<"1">>, <<"2">>, <<"3">>, <<"4">>, <<"5">>, <<"6">>, <<"7">>,
                  <<" ", "2">>, <<"8">>, <<"x">>, <<>> }
BookIdInputs == { <<"a">>, <<"0", "1", " ">> }
UserIdInputs == { <<"u">>, <<" ", "v">> }
TitleInputs == { <<"T">> }
AuthorInputs == { <<"A">> }
NameInputs == { <<"N">> }
CopiesInputs == { <<"1">>, <<" ", "2">>, <<"0">>, <<"x">> }

(* ------------------------------ str.strip ------------------------------ *)
IsSpace(c) == c \in {" ", "\t", "\n"}

RECURSIVE LStrip(_)
LStrip(s) == IF s # <<>> /\ IsSpace(Head(s)) THEN LStrip(Tail(s)) ELSE s

RECURSIVE RStrip(_)
RStrip(s) == IF s # <<>> /\ IsSpace(s[Len(s)]) THEN RStrip(SubSeq(s, 1, Len(s) - 1)) ELSE s

Strip(s) == RStrip(LStrip(s))

(* the ids the inputs can name *)
UserIds == { Strip(x) : x \in UserIdInputs }
BookIds == { Strip(x) : x \in BookIdInputs }

(* -------------------------------- int() -------------------------------- *)
Digits == <<"0", "1", "2", "3", "4", "5", "6", "7", "8", "9">>

IsDigit(c) == \E d \in DOMAIN Digits : Digits[d] = c

DigitVal(c) == (CHOOSE d \in DOMAIN Digits : Digits[d] = c) - 1

RECURSIVE DigitsVal(_)
DigitsVal(s) == IF s = <<>> THEN 0
                ELSE 10 * DigitsVal(SubSeq(s, 1, Len(s) - 1)) + DigitVal(s[Len(s)])

AllDigits(s) == s # <<>> /\ \A i \in DOMAIN s : IsDigit(s[i])

(* int(text): ok = FALSE stands for ValueError *)
ParseInt(text) ==
    LET s == Strip(text)
        signed == s # <<>> /\ Head(s) \in {"+", "-"}
        body == IF signed THEN Tail(s) ELSE s
    IN IF AllDigits(body)
       THEN [ok |-> TRUE, val |-> IF signed /\ Head(s) = "-" THEN 0 - DigitsVal(body) ELSE DigitsVal(body)]
       ELSE [ok |-> FALSE, val |-> 0]

(* ------------------------------- helpers -------------------------------- *)
Max(a, b) == IF a >= b THEN a ELSE b

(* book_id in books["BookID"].values *)
HasBook(bks, book_id) == \E i \in DOMAIN bks : bks[i].BookID = book_id

(* books[books["BookID"] == book_id].iloc[0] *)
FirstBook(bks, book_id) ==
    bks[CHOOSE i \in DOMAIN bks : /\ bks[i].BookID = book_id
                                  /\ \A j \in DOMAIN bks : bks[j].BookID = book_id => i <= j]

(* books.loc[books["BookID"] == book_id, "AvailableCopies"] += delta *)
AdjustAvailable(bks, book_id, delta) ==
    [i \in DOMAIN bks |->
        IF bks[i].BookID = book_id
        THEN [bks[i] EXCEPT !.AvailableCopies = @ + delta]
        ELSE bks[i]]

(* ------------------------------- add_book ------------------------------- *)
(* add_book with the duplicate check reporting but not returning *)
add_book_dup(bks, idIn, titleIn, authorIn, copiesIn) ==
    LET book_id == Strip(idIn)
        parsed == ParseInt(copiesIn)
        row == [BookID |-> book_id, Title |-> Strip(titleIn), Author |-> Strip(authorIn),
                TotalCopies |-> parsed.val, AvailableCopies |-> parsed.val]
    IN IF ~parsed.ok \/ parsed.val < 1
       THEN [books |-> bks, out |-> <<"Invalid number of copies.">>]
       ELSE IF HasBook(bks, book_id)
       THEN [books |-> Append(bks, row), out |-> <<"Book ID already exists.">>]
       ELSE [books |-> Append(bks, row), out |-> <<"Book added successfully.">>]

add_book(bks, idIn, titleIn, authorIn, copiesIn) ==
    LET book_id == Strip(idIn)
        parsed == ParseInt(copiesIn)
    IN IF HasBook(bks, book_id)
       THEN [books |-> bks, out |-> <<"Book ID already exists.">>]
       ELSE IF ~parsed.ok \/ parsed.val < 1
       THEN [books |-> bks, out |-> <<"Invalid number of copies.">>]
       ELSE [books |-> Append(bks, [BookID |-> book_id, Title |-> Strip(titleIn),
                                    Author |-> Strip(authorIn),
                                    TotalCopies |-> parsed.val,
                                    AvailableCopies |-> parsed.val]),
             out |-> <<"Book added successfully.">>]

(* ------------------------------ issue_book ------------------------------ *)
(* issue_book with the availability test written < 0 *)
issue_book_lt(bks, usr, lgs, userIn, nameIn, idIn, today) ==
    LET user_id == Strip(userIn)
        name == Strip(nameIn)
        book_id == Strip(idIn)
    IN IF ~HasBook(bks, book_id)
       THEN [books |-> bks, users |-> usr, logs |-> lgs, out |-> <<"Book not found.">>]
       ELSE IF FirstBook(bks, book_id).AvailableCopies < 0
       THEN [books |-> bks, users |-> usr, logs |-> lgs, out |-> <<"No copies available.">>]
       ELSE [books |-> AdjustAvailable(bks, book_id, -1),
             users |-> Append(usr, [UserID |-> user_id, Name |-> name, BookID |-> book_id,
                                    IssueDate |-> today, ReturnDate |-> NaT]),
             logs |-> Append(lgs, [UserID |-> user_id, BookID |-> book_id,
                                   Action |-> "Issued", Date |-> today]),
             out |-> <<"Book issued.">>]

(* issue_book without the test of lines 63-65 *)
issue_book_nocheck(bks, usr, lgs, userIn, nameIn, idIn, today) ==
    LET user_id == Strip(userIn)
        name == Strip(nameIn)
        book_id == Strip(idIn)
    IN IF HasBook(bks, book_id) /\ FirstBook(bks, book_id).AvailableCopies <= 0
       THEN [books |-> bks, users |-> usr, logs |-> lgs, out |-> <<"No copies available.">>]
       ELSE [books |-> AdjustAvailable(bks, book_id, -1),
             users |-> Append(usr, [UserID |-> user_id, Name |-> name, BookID |-> book_id,
                                    IssueDate |-> today, ReturnDate |-> NaT]),
             logs |-> Append(lgs, [UserID |-> user_id, BookID |-> book_id,
                                   Action |-> "Issued", Date |-> today]),
             out |-> <<"Book issued.">>]

(* issue_book that never lowers AvailableCopies *)
issue_book_nodec(bks, usr, lgs, userIn, nameIn, idIn, today) ==
    LET user_id == Strip(userIn)
        name == Strip(nameIn)
        book_id == Strip(idIn)
    IN IF ~HasBook(bks, book_id)
       THEN [books |-> bks, users |-> usr, logs |-> lgs, out |-> <<"Book not found.">>]
       ELSE IF FirstBook(bks, book_id).AvailableCopies <= 0
       THEN [books |-> bks, users |-> usr, logs |-> lgs, out |-> <<"No copies available.">>]
       ELSE [books |-> bks,
             users |-> Append(usr, [UserID |-> user_id, Name |-> name, BookID |-> book_id,
                                    IssueDate |-> today, ReturnDate |-> NaT]),
             logs |-> Append(lgs, [UserID |-> user_id, BookID |-> book_id,
                                   Action |-> "Issued", Date |-> today]),
             out |-> <<"Book issued.">>]

issue_book(bks, usr, lgs, userIn, nameIn, idIn, today) ==
    LET user_id == Strip(userIn)
        name == Strip(nameIn)
        book_id == Strip(idIn)
    IN IF ~HasBook(bks, book_id)
       THEN [books |-> bks, users |-> usr, logs |-> lgs, out |-> <<"Book not found.">>]
       ELSE IF FirstBook(bks, book_id).AvailableCopies <= 0
       THEN [books |-> bks, users |-> usr, logs |-> lgs, out |-> <<"No copies available.">>]
       ELSE [books |-> AdjustAvailable(bks, book_id, -1),
             users |-> Append(usr, [UserID |-> user_id, Name |-> name, BookID |-> book_id,
                                    IssueDate |-> today, ReturnDate |-> NaT]),
             logs |-> Append(lgs, [UserID |-> user_id, BookID |-> book_id,
                                   Action |-> "Issued", Date |-> today]),
             out |-> <<"Book issued.">>]

(* ------------------------------ return_book ----------------------------- *)
(* the mask without the isna() term *)
MaskAnyLoan(usr, user_id, book_id) ==
    { i \in DOMAIN usr : usr[i].UserID = user_id /\ usr[i].BookID = book_id }

(* mask = (UserID == user_id) & (BookID == book_id) & ReturnDate.isna() *)
Mask(usr, user_id, book_id) ==
    { i \in DOMAIN usr : /\ usr[i].UserID = user_id
                         /\ usr[i].BookID = book_id
                         /\ usr[i].ReturnDate = NaT }

Min(S) == CHOOSE x \in S : \A y \in S : x <= y

(* the day count rounded up instead of cut off *)
ReturnDaysCeil(today, issue_date) == (today - issue_date + TicksPerDay - 1) \div TicksPerDay

(* (today - issue_date).days : whole days, the fraction discarded *)
ReturnDays(today, issue_date) == (today - issue_date) \div TicksPerDay

Fine(return_days) == Max(0, (return_days - GraceDays) * FINE_PER_DAY)

(* users.loc[mask, "ReturnDate"] = today : every row of the mask *)
SetReturnDate(usr, mask, today) ==
    [i \in DOMAIN usr |-> IF i \in mask THEN [usr[i] EXCEPT !.ReturnDate = today] ELSE usr[i]]

(* return_book that writes no log entry *)
return_book_nolog(bks, usr, lgs, userIn, idIn, today) ==
    LET user_id == Strip(userIn)
        book_id == Strip(idIn)
        mask == Mask(usr, user_id, book_id)
    IN IF mask = {}
       THEN [books |-> bks, users |-> usr, logs |-> lgs, fine |-> 0,
             out |-> <<"No active issue found.">>]
       ELSE LET issue_date == usr[Min(mask)].IssueDate
                f == Fine(ReturnDays(today, issue_date))
            IN [books |-> AdjustAvailable(bks, book_id, 1),
                users |-> SetReturnDate(usr, mask, today),
                logs |-> lgs,
                fine |-> f,
                out |-> IF f > 0 THEN <<"Book returned.", "Late return. Fine">>
                                 ELSE <<"Book returned.">>]

return_book(bks, usr, lgs, userIn, idIn, today) ==
    LET user_id == Strip(userIn)
        book_id == Strip(idIn)
        mask == Mask(usr, user_id, book_id)
    IN IF mask = {}
       THEN [books |-> bks, users |-> usr, logs |-> lgs, fine |-> 0,
             out |-> <<"No active issue found.">>]
       ELSE LET issue_date == usr[Min(mask)].IssueDate
                f == Fine(ReturnDays(today, issue_date))
            IN [books |-> AdjustAvailable(bks, book_id, 1),
                users |-> SetReturnDate(usr, mask, today),
                logs |-> Append(lgs, [UserID |-> user_id, BookID |-> book_id,
                                      Action |-> "Returned", Date |-> today]),
                fine |-> f,
                out |-> IF f > 0 THEN <<"Book returned.", "Late return. Fine">>
                                 ELSE <<"Book returned.">>]

(* ------------------------------ view_books ------------------------------ *)
(* books.to_string(index=False): the whole table is printed *)
view_books(bks) == [out |-> <<"--- Book Inventory ---">>, display |-> bks]

OutstandingRows(usr, bid) == { k \in DOMAIN usr : usr[k].BookID = bid /\ usr[k].ReturnDate = NaT }

(* -------------------------- visualize_top_books ------------------------- *)
(* the count taken over the loans still out only *)
BorrowCountOutstanding(usr, bid) ==
    Cardinality({ i \in DOMAIN usr : usr[i].BookID = bid /\ usr[i].ReturnDate = NaT })

(* users["BookID"].value_counts() *)
BorrowCount(usr, bid) == Cardinality({ i \in DOMAIN usr : usr[i].BookID = bid })

BorrowedIds(usr) == { usr[i].BookID : i \in DOMAIN usr }

(* book_titles.get(bid, bid) *)
Label(bks, bid) == IF HasBook(bks, bid) THEN FirstBook(bks, bid).Title ELSE bid

(* value_counts() orders by falling count and leaves the order of equal     *)
(* counts open; nlargest(5) keeps the first five of that order.             *)
CountOrders(usr) ==
    LET ids == BorrowedIds(usr)
        n == Cardinality(ids)
    IN { f \in [1..n -> ids] :
            /\ \A i, j \in 1..n : i # j => f[i] # f[j]
            /\ \A i, j \in 1..n : i < j => BorrowCount(usr, f[i]) >= BorrowCount(usr, f[j]) }

TopBooks(usr, bks) ==
    { [k \in 1..(IF Len(f) < TopN THEN Len(f) ELSE TopN) |->
          [label |-> Label(bks, f[k]), count |-> BorrowCount(usr, f[k])]] : f \in CountOrders(usr) }

(* ----------------------------- the data files --------------------------- *)
Missing == [exists |-> FALSE, header |-> <<>>, rows |-> <<>>]

BooksHeader == <<"BookID", "Title", "Author", "TotalCopies", "AvailableCopies">>
UsersHeader == <<"UserID", "Name", "BookID", "IssueDate", "ReturnDate">>
LogsHeader == <<"UserID", "BookID", "Action", "Date">>

FileNames == {"BOOKS_FILE", "USERS_FILE", "LOGS_FILE", "EXPORT_FILE"}

RECURSIVE IntToStr(_)
IntToStr(n) == IF n < 0 THEN <<"-">> \o IntToStr(0 - n)
               ELSE IF n < 10 THEN <<Digits[n + 1]>>
               ELSE IntToStr(n \div 10) \o <<Digits[(n % 10) + 1]>>

(* a timestamp cell: NaT is written as the empty field *)
DateToStr(d) == IF d = NaT THEN <<>> ELSE IntToStr(d)

StrToDate(s) == IF s = <<>> THEN NaT ELSE ParseInt(s).val

ActionToStr(a) == IF a = "Issued" THEN <<"I", "s", "s", "u", "e", "d">>
                  ELSE <<"R", "e", "t", "u", "r", "n", "e", "d">>

StrToAction(s) == IF s = <<"I", "s", "s", "u", "e", "d">> THEN "Issued" ELSE "Returned"

(* A text column read back by read_csv holds, beside text, values that the *)
(* type inference made: an int64, a float64 or the missing value NaN.  They *)
(* are tagged, so that none of them equals a text typed by the user.        *)
IntCell(n) == <<"int64">> \o IntToStr(n)
FloatCell(n) == <<"float64">> \o IntToStr(n)
NaNCell == <<"NaN">>

IsTagged(v, tag) == v # <<>> /\ Head(v) = tag

(* to_csv of one cell of a text column *)
CellToStr(v) == IF IsTagged(v, "int64") THEN Tail(v)
                ELSE IF IsTagged(v, "float64") THEN Tail(v) \o <<".", "0">>
                ELSE IF v = NaNCell THEN <<>>
                ELSE v

(* DataFrame.to_csv(path, index=False) *)
BooksToCsv(bks) ==
    [exists |-> TRUE, header |-> BooksHeader,
     rows |-> [i \in DOMAIN bks |-> <<CellToStr(bks[i].BookID), CellToStr(bks[i].Title),
                                      CellToStr(bks[i].Author),
                                      IntToStr(bks[i].TotalCopies),
                                      IntToStr(bks[i].AvailableCopies)>>]]

UsersToCsv(usr) ==
    [exists |-> TRUE, header |-> UsersHeader,
     rows |-> [i \in DOMAIN usr |-> <<CellToStr(usr[i].UserID), CellToStr(usr[i].Name),
                                      CellToStr(usr[i].BookID),
                                      DateToStr(usr[i].IssueDate),
                                      DateToStr(usr[i].ReturnDate)>>]]

LogsToCsv(lgs) ==
    [exists |-> TRUE, header |-> LogsHeader,
     rows |-> [i \in DOMAIN lgs |-> <<CellToStr(lgs[i].UserID), CellToStr(lgs[i].BookID),
                                      ActionToStr(lgs[i].Action),
                                      DateToStr(lgs[i].Date)>>]]

(* read_csv infers the type of a column from all of its cells: integers   *)
(* when every cell is an integer, floats when the others are empty, text   *)
(* otherwise; an empty cell is the missing value                            *)
IsIntText(t) == t # <<>> /\ ParseInt(t).ok

AllIntColumn(rows, c) == rows # <<>> /\ \A i \in DOMAIN rows : IsIntText(rows[i][c])

FloatColumn(rows, c) ==
    /\ \A i \in DOMAIN rows : IsIntText(rows[i][c]) \/ rows[i][c] = <<>>
    /\ \E i \in DOMAIN rows : IsIntText(rows[i][c])
    /\ \E i \in DOMAIN rows : rows[i][c] = <<>>

ReadCell(rows, c, i) ==
    IF AllIntColumn(rows, c) THEN IntCell(ParseInt(rows[i][c]).val)
    ELSE IF rows[i][c] = <<>> THEN NaNCell
    ELSE IF FloatColumn(rows, c) THEN FloatCell(ParseInt(rows[i][c]).val)
    ELSE rows[i][c]

(* pd.read_csv(path [, parse_dates]) *)
BooksFromCsv(f) ==
    [i \in DOMAIN f.rows |-> [BookID |-> ReadCell(f.rows, 1, i), Title |-> ReadCell(f.rows, 2, i),
                              Author |-> ReadCell(f.rows, 3, i),
                              TotalCopies |-> ParseInt(f.rows[i][4]).val,
                              AvailableCopies |-> ParseInt(f.rows[i][5]).val]]

UsersFromCsv(f) ==
    [i \in DOMAIN f.rows |-> [UserID |-> ReadCell(f.rows, 1, i), Name |-> ReadCell(f.rows, 2, i),
                              BookID |-> ReadCell(f.rows, 3, i),
                              IssueDate |-> StrToDate(f.rows[i][4]),
                              ReturnDate |-> StrToDate(f.rows[i][5])]]

LogsFromCsv(f) ==
    [i \in DOMAIN f.rows |-> [UserID |-> ReadCell(f.rows, 1, i), BookID |-> ReadCell(f.rows, 2, i),
                              Action |-> StrToAction(f.rows[i][3]),
                              Date |-> StrToDate(f.rows[i][4])]]

(* ensure_files writing the header whether or not the file exists *)
ensure_files_overwrite(d) ==
    [d EXCEPT !["BOOKS_FILE"] = [exists |-> TRUE, header |-> BooksHeader, rows |-> <<>>],
              !["USERS_FILE"] = [exists |-> TRUE, header |-> UsersHeader, rows |-> <<>>],
              !["LOGS_FILE"] = [exists |-> TRUE, header |-> LogsHeader, rows |-> <<>>]]

(* ensure_files: a file is created, header only, when it does not exist *)
ensure_files(d) ==
    [d EXCEPT !["BOOKS_FILE"] = IF @.exists THEN @ ELSE [exists |-> TRUE, header |-> BooksHeader, rows |-> <<>>],
              !["USERS_FILE"] = IF @.exists THEN @ ELSE [exists |-> TRUE, header |-> UsersHeader, rows |-> <<>>],
              !["LOGS_FILE"] = IF @.exists THEN @ ELSE [exists |-> TRUE, header |-> LogsHeader, rows |-> <<>>]]

load_data(d) ==
    [books |-> BooksFromCsv(d["BOOKS_FILE"]),
     users |-> UsersFromCsv(d["USERS_FILE"]),
     logs |-> LogsFromCsv(d["LOGS_FILE"])]

(* save_data without the third to_csv *)
save_data_nologs(d, bks, usr, lgs) ==
    [d EXCEPT !["BOOKS_FILE"] = BooksToCsv(bks),
              !["USERS_FILE"] = UsersToCsv(usr)]

save_data(d, bks, usr, lgs) ==
    [d EXCEPT !["BOOKS_FILE"] = BooksToCsv(bks),
              !["USERS_FILE"] = UsersToCsv(usr),
              !["LOGS_FILE"] = LogsToCsv(lgs)]

(* export_logs writing to LOGS_FILE *)
export_logs_primary(d, lgs) == [d EXCEPT !["LOGS_FILE"] = LogsToCsv(lgs)]

export_logs(d, lgs) == [d EXCEPT !["EXPORT_FILE"] = LogsToCsv(lgs)]

(* -------------------------------- main ---------------------------------- *)
NoInput == [op |-> "none", user_id |-> <<>>, book_id |-> <<>>, copies |-> <<>>]

Init ==
    /\ books = <<>>
    /\ users = <<>>
    /\ logs = <<>>
    /\ now = 0
    /\ pc = "start"
    /\ out = <<>>
    /\ fine = 0
    /\ display = <<>>
    /\ last = NoInput
    /\ disk = [n \in FileNames |-> Missing]

(* main, lines 128-129: ensure_files() then load_data() *)
Startup ==
    /\ pc = "start"
    /\ LET d == ensure_files(disk)
           t == load_data(d)
       IN /\ disk' = d
          /\ books' = t.books
          /\ users' = t.users
          /\ logs' = t.logs
    /\ pc' = "loop"
    /\ UNCHANGED <<now, out, fine, display, last>>

(* main, lines 131-139: the head of the loop prints the menu; what the     *)
(* handler before it printed and read is gone                               *)
Prompt ==
    /\ pc = "loop"
    /\ pc' = "menu"
    /\ out' = <<"Library Management Menu:">>
    /\ last' = NoInput
    /\ fine' = 0
    /\ display' = <<>>
    /\ UNCHANGED <<books, users, logs, now, disk>>

(* the wall clock moves between two inputs *)
Tick ==
    /\ pc = "menu"
    /\ \E d \in ClockSteps :
          /\ now + d <= MaxNow
          /\ now' = now + d
    /\ UNCHANGED <<books, users, logs, pc, out, fine, display, last, disk>>

Chosen(c) == \E raw \in ChoiceInputs : Strip(raw) = c

(* choice "1" *)
AddBook ==
    /\ pc = "menu"
    /\ Chosen(<<"1">>)
    /\ \E idIn \in BookIdInputs, titleIn \in TitleInputs, authorIn \in AuthorInputs,
          copiesIn \in CopiesInputs :
          LET r == add_book(books, idIn, titleIn, authorIn, copiesIn)
          IN /\ books' = r.books
             /\ out' = r.out
             /\ last' = [op |-> "add", user_id |-> <<>>, book_id |-> Strip(idIn),
                         copies |-> IF HasBook(books, Strip(idIn)) THEN <<>> ELSE copiesIn]
    /\ fine' = 0
    /\ display' = <<>>
    /\ pc' = "loop"
    /\ UNCHANGED <<users, logs, now, disk>>

(* choice "2" *)
IssueBook ==
    /\ pc = "menu"
    /\ Chosen(<<"2">>)
    /\ \E userIn \in UserIdInputs, nameIn \in NameInputs, idIn \in BookIdInputs :
          LET r == issue_book(books, users, logs, userIn, nameIn, idIn, now)
          IN /\ Len(r.users) <= MaxLoans
             /\ books' = r.books
             /\ users' = r.users
             /\ logs' = r.logs
             /\ out' = r.out
             /\ last' = [op |-> "issue", user_id |-> Strip(userIn), book_id |-> Strip(idIn),
                         copies |-> <<>>]
    /\ fine' = 0
    /\ display' = <<>>
    /\ pc' = "loop"
    /\ UNCHANGED <<now, disk>>

(* choice "3" *)
ReturnBook ==
    /\ pc = "menu"
    /\ Chosen(<<"3">>)
    /\ \E userIn \in UserIdInputs, idIn \in BookIdInputs :
          LET r == return_book(books, users, logs, userIn, idIn, now)
          IN /\ books' = r.books
             /\ users' = r.users
             /\ logs' = r.logs
             /\ out' = r.out
             /\ fine' = r.fine
             /\ last' = [op |-> "return", user_id |-> Strip(userIn), book_id |-> Strip(idIn),
                         copies |-> <<>>]
    /\ display' = <<>>
    /\ pc' = "loop"
    /\ UNCHANGED <<now, disk>>

(* choice "4" *)
ViewBooks ==
    /\ pc = "menu"
    /\ Chosen(<<"4">>)
    /\ out' = view_books(books).out
    /\ display' = view_books(books).display
    /\ last' = [NoInput EXCEPT !.op = "view"]
    /\ fine' = 0
    /\ pc' = "loop"
    /\ UNCHANGED <<books, users, logs, now, disk>>

(* choice "5" *)
ShowTopBooks ==
    /\ pc = "menu"
    /\ Chosen(<<"5">>)
    /\ IF users = <<>>
       THEN /\ out' = <<"No borrowing records yet.">>
            /\ display' = <<>>
       ELSE /\ out' = <<"--- Top 5 Most Borrowed Books ---">>
            /\ display' \in TopBooks(users, books)
    /\ last' = [NoInput EXCEPT !.op = "top"]
    /\ fine' = 0
    /\ pc' = "loop"
    /\ UNCHANGED <<books, users, logs, now, disk>>

(* choice "6" *)
ExportLogs ==
    /\ pc = "menu"
    /\ Chosen(<<"6">>)
    /\ disk' = export_logs(disk, logs)
    /\ out' = <<"Logs exported">>
    /\ last' = [NoInput EXCEPT !.op = "export"]
    /\ fine' = 0
    /\ display' = <<>>
    /\ pc' = "loop"
    /\ UNCHANGED <<books, users, logs, now>>

(* choice "7" *)
Exit ==
    /\ pc = "menu"
    /\ Chosen(<<"7">>)
    /\ disk' = save_data(disk, books, users, logs)
    /\ out' = <<"Exiting...">>
    /\ pc' = "done"
    /\ last' = [NoInput EXCEPT !.op = "exit"]
    /\ fine' = 0
    /\ display' = <<>>
    /\ UNCHANGED <<books, users, logs, now>>

MenuChoices == { <<"1">>, <<"2">>, <<"3">>, <<"4">>, <<"5">>, <<"6">>, <<"7">> }

(* any other text *)
InvalidChoice ==
    /\ pc = "menu"
    /\ \E raw \in ChoiceInputs : Strip(raw) \notin MenuChoices
    /\ out' = <<"Invalid choice. Please try again.">>
    /\ last' = [NoInput EXCEPT !.op = "invalid"]
    /\ fine' = 0
    /\ display' = <<>>
    /\ pc' = "loop"
    /\ UNCHANGED <<books, users, logs, now, disk>>

(* the menu loop of main: one step per choice read *)
Next ==
    \/ Startup
    \/ Prompt
    \/ AddBook
    \/ IssueBook
    \/ ReturnBook
    \/ ViewBooks
    \/ ShowTopBooks
    \/ ExportLogs
    \/ Exit
    \/ InvalidChoice

Spec == Init /\ [][Next]_vars

(* the loan operations, with the clock moving between them *)
NextLoans ==
    \/ Startup
    \/ Prompt
    \/ Tick
    \/ AddBook
    \/ IssueBook
    \/ ReturnBook

SpecLoans == Init /\ [][NextLoans]_vars

(* ------------------- the data directory across runs -------------------- *)
TableFiles == {"BOOKS_FILE", "USERS_FILE", "LOGS_FILE"}

(* tables an earlier run can have left behind: up to two books of two       *)
(* copies, and at most one loan, still out or brought back                  *)
StoredBooks == { <<>> } \cup { <<b>> : b \in BookIds }
                       \cup { p \in BookIds \X BookIds : p[1] # p[2] }

StoredUserIds == { <<"u">>, <<"7">> }

StoredLoans(ids) ==
    { <<>> } \cup
    { <<[UserID |-> uid, Name |-> <<"N">>, BookID |-> ids[1], IssueDate |-> 0, ReturnDate |-> r]>> :
         uid \in (IF ids = <<>> THEN {} ELSE StoredUserIds), r \in {NaT, Min(ClockSteps)} }

StoredLogs(usr) ==
    IF usr = <<>> THEN <<>>
    ELSE LET issued == [UserID |-> usr[1].UserID, BookID |-> usr[1].BookID,
                        Action |-> "Issued", Date |-> usr[1].IssueDate]
             returned == [UserID |-> usr[1].UserID, BookID |-> usr[1].BookID,
                          Action |-> "Returned", Date |-> usr[1].ReturnDate]
         IN IF usr[1].ReturnDate = NaT THEN <<issued>> ELSE <<issued, returned>>

StoredTables ==
    { [books |-> [i \in DOMAIN ids |->
                    [BookID |-> ids[i], Title |-> <<"T">>, Author |-> <<"A">>, TotalCopies |-> 2,
                     AvailableCopies |-> 2 - Cardinality({ k \in DOMAIN usr :
                                              usr[k].BookID = ids[i] /\ usr[k].ReturnDate = NaT })]],
       users |-> usr,
       logs |-> StoredLogs(usr)] : ids \in StoredBooks, usr \in UNION { StoredLoans(x) : x \in StoredBooks } }

(* the program is started on a data directory in which each table file is   *)
(* either absent or as an earlier run saved it                              *)
InitStore ==
    /\ books = <<>>
    /\ users = <<>>
    /\ logs = <<>>
    /\ now = 0
    /\ pc = "start"
    /\ out = <<>>
    /\ fine = 0
    /\ display = <<>>
    /\ last = NoInput
    /\ \E t \in StoredTables, absent \in SUBSET TableFiles :
          /\ \A k \in DOMAIN t.users : \E i \in DOMAIN t.books : t.books[i].BookID = t.users[k].BookID
          /\ disk = [n \in FileNames |->
                       IF n \in absent \/ n = "EXPORT_FILE" THEN Missing
                       ELSE IF n = "BOOKS_FILE" THEN BooksToCsv(t.books)
                       ELSE IF n = "USERS_FILE" THEN UsersToCsv(t.users)
                       ELSE LogsToCsv(t.logs)]

(* lines 161-162: the program is run again; nothing in memory survives *)
Restart ==
    /\ pc = "done"
    /\ pc' = "start"
    /\ books' = <<>>
    /\ users' = <<>>
    /\ logs' = <<>>
    /\ out' = <<>>
    /\ fine' = 0
    /\ display' = <<>>
    /\ last' = NoInput
    /\ UNCHANGED <<now, disk>>

(* runs that load the tables and save them at once *)
NextStore ==
    \/ Startup
    \/ Prompt
    \/ Exit
    \/ Restart

SpecStore == InitStore /\ [][NextStore]_vars

(* ---------------- the chart over a loan table of many books ------------- *)
MaxPerBook == 2
MaxTopLoans == 7

Letters == <<"a", "b", "c", "d", "e", "f", "g", "h">>

(* one more book than the chart shows *)
TopIdSeq == [i \in 1..(TopN + 1) |-> <<Letters[i]>>]

RECURSIVE SumTo(_, _)
SumTo(cv, i) == IF i = 0 THEN 0 ELSE cv[i] + SumTo(cv, i - 1)

(* how many loan rows each book has *)
TopCounts ==
    { cv \in [DOMAIN TopIdSeq -> 0..MaxPerBook] : SumTo(cv, Len(TopIdSeq)) <= MaxTopLoans }

(* the loan table with cv[i] rows of book i; with ret the first loan of     *)
(* each book has been brought back                                          *)
RECURSIVE TopLoans(_, _, _)
TopLoans(cv, ret, i) ==
    IF i > Len(TopIdSeq) THEN <<>>
    ELSE [k \in 1..cv[i] |->
             [UserID |-> <<"u">>, Name |-> <<"N">>, BookID |-> TopIdSeq[i], IssueDate |-> 0,
              ReturnDate |-> IF ret /\ k = 1 THEN Min(ClockSteps) ELSE NaT]]
         \o TopLoans(cv, ret, i + 1)

IsBack(row) == row.ReturnDate # NaT

TopLogs(usr) ==
    [k \in DOMAIN usr |-> [UserID |-> usr[k].UserID, BookID |-> usr[k].BookID,
                           Action |-> "Issued", Date |-> usr[k].IssueDate]]
    \o [k \in DOMAIN SelectSeq(usr, IsBack) |->
           [UserID |-> SelectSeq(usr, IsBack)[k].UserID, BookID |-> SelectSeq(usr, IsBack)[k].BookID,
            Action |-> "Returned", Date |-> SelectSeq(usr, IsBack)[k].ReturnDate]]

(* the first n books have a row in the Books table, each its own title *)
TopShelf(n, usr) ==
    [i \in 1..n |->
        [BookID |-> TopIdSeq[i], Title |-> <<"T">> \o TopIdSeq[i], Author |-> <<"A">>,
         TotalCopies |-> MaxPerBook,
         AvailableCopies |-> MaxPerBook - Cardinality(OutstandingRows(usr, TopIdSeq[i]))]]

TopShelves == {0, TopN - 2, TopN + 1}

(* the program is started on the files of earlier runs; the Books file may  *)
(* have been lost, or hold only some of the books that were lent            *)
InitTop ==
    /\ books = <<>>
    /\ users = <<>>
    /\ logs = <<>>
    /\ now = 0
    /\ pc = "start"
    /\ out = <<>>
    /\ fine = 0
    /\ display = <<>>
    /\ last = NoInput
    /\ \E cv \in TopCounts, ret \in BOOLEAN, n \in TopShelves :
          LET usr == TopLoans(cv, ret, 1)
          IN disk = [f \in FileNames |->
                       IF f = "EXPORT_FILE" THEN Missing
                       ELSE IF f = "BOOKS_FILE"
                            THEN IF n = 0 THEN Missing ELSE BooksToCsv(TopShelf(n, usr))
                       ELSE IF f = "USERS_FILE" THEN UsersToCsv(usr)
                       ELSE LogsToCsv(TopLogs(usr))]

NextTop ==
    \/ Startup
    \/ Prompt
    \/ ShowTopBooks

SpecTop == InitTop /\ [][NextTop]_vars

TypeOK ==
    /\ pc \in {"start", "loop", "menu", "done"}
    /\ now \in 0..MaxNow
    /\ Len(users) <= MaxLoans
    /\ fine >= 0

(* ======================= properties of the tables ======================= *)
Returned == "Book returned."
Issued == "Book issued."

(* rows of the loan table that are still out, for one book / one pair *)
OutstandingOf(usr, bid) == { i \in DOMAIN usr : usr[i].BookID = bid /\ usr[i].ReturnDate = NaT }

OutstandingOfPair(usr, uid, bid) ==
    { i \in DOMAIN usr : usr[i].UserID = uid /\ usr[i].BookID = bid /\ usr[i].ReturnDate = NaT }

(* a step of the loop that ran the handler of one choice *)
Ran(op) == pc = "menu" /\ last'.op = op

IssueSucceeded == Ran("issue") /\ out' = <<Issued>>
ReturnSucceeded == Ran("return") /\ out'[1] = Returned

(* C1: for every book, AvailableCopies = TotalCopies - number of outstanding *)
(* loans of that BookID, in every state reached by add-book, issue, return.  *)
C1_AvailableMatchesOutstanding ==
    \A i \in DOMAIN books :
        books[i].AvailableCopies =
            books[i].TotalCopies - Cardinality(OutstandingOf(users, books[i].BookID))

(* C2: a successful return by (userId, bookId) sets ReturnDate on exactly    *)
(* one loan row, the first outstanding row of the pair, leaves every other   *)
(* row unchanged and raises AvailableCopies of bookId by exactly 1.          *)
C2_ReturnClosesExactlyOne ==
    [][ ReturnSucceeded =>
          LET uid == last'.user_id
              bid == last'.book_id
              open == OutstandingOfPair(users, uid, bid)
              k == CHOOSE i \in open : \A j \in open : i <= j
          IN /\ users' = [users EXCEPT ![k].ReturnDate = now]
             /\ DOMAIN books' = DOMAIN books
             /\ \A i \in DOMAIN books :
                   books'[i] = IF books[i].BookID = bid
                               THEN [books[i] EXCEPT !.AvailableCopies = @ + 1]
                               ELSE books[i] ]_vars

(* C3: an issue of bookId succeeds iff the book exists and has               *)
(* AvailableCopies > 0; then AvailableCopies of that book falls by exactly   *)
(* 1, one outstanding loan row for (userId, bookId) is appended, and every   *)
(* other book and loan is unchanged; else Books, Loans, Logs are unchanged.  *)
C3_IssueIffAvailable ==
    [][ Ran("issue") =>
          LET uid == last'.user_id
              bid == last'.book_id
              can == \E i \in DOMAIN books : /\ books[i].BookID = bid
                                             /\ books[i].AvailableCopies > 0
          IN IF can
             THEN /\ out' = <<Issued>>
                  /\ Len(users') = Len(users) + 1
                  /\ SubSeq(users', 1, Len(users)) = users
                  /\ users'[Len(users')].UserID = uid
                  /\ users'[Len(users')].BookID = bid
                  /\ users'[Len(users')].IssueDate = now
                  /\ users'[Len(users')].ReturnDate = NaT
                  /\ DOMAIN books' = DOMAIN books
                  /\ \A i \in DOMAIN books :
                        books'[i] = IF books[i].BookID = bid
                                    THEN [books[i] EXCEPT !.AvailableCopies = @ - 1]
                                    ELSE books[i]
             ELSE /\ out' # <<Issued>>
                  /\ UNCHANGED <<books, users, logs>> ]_vars

C3_Witness ==
    /\ last.op = "issue"
    /\ out = <<Issued>>
    /\ Len(users) = 2
    /\ Len(books) = 2
    /\ users[2].BookID = last.book_id
    /\ users[1].BookID # last.book_id

(* C4: at most one outstanding loan for each (UserID, BookID) pair.          *)
C4_OneOutstandingPerPair ==
    \A uid \in UserIds, bid \in BookIds :
        Cardinality(OutstandingOfPair(users, uid, bid)) <= 1

(* C5: every book satisfies 0 <= AvailableCopies <= TotalCopies.             *)
C5_AvailableInRange ==
    \A i \in DOMAIN books :
        /\ 0 <= books[i].AvailableCopies
        /\ books[i].AvailableCopies <= books[i].TotalCopies

(* a book fully lent out, and then a copy of it brought back *)
C5_Witness ==
    /\ last.op = "return"
    /\ out[1] = Returned
    /\ \E i \in DOMAIN books : /\ books[i].BookID = last.book_id
                               /\ books[i].AvailableCopies = 1
                               /\ Cardinality(OutstandingOf(users, last.book_id)) = 1

(* C6: the outstanding loans of a book never exceed its TotalCopies, and     *)
(* while TotalCopies loans of it are outstanding every issue of it is        *)
(* rejected.                                                                 *)
C6_OutstandingAtMostTotal ==
    [][ /\ \A i \in DOMAIN books' :
              Cardinality(OutstandingOf(users', books'[i].BookID)) <= books'[i].TotalCopies
        /\ Ran("issue") =>
              \A i \in DOMAIN books :
                 ( /\ books[i].BookID = last'.book_id
                   /\ Cardinality(OutstandingOf(users, books[i].BookID)) >= books[i].TotalCopies )
                 => ( out' = <<"No copies available.">> /\ UNCHANGED <<books, users, logs>> ) ]_vars

C6_Witness ==
    /\ last.op = "issue"
    /\ out = <<"No copies available.">>
    /\ \E i \in DOMAIN books :
          /\ books[i].BookID = last.book_id
          /\ Cardinality(OutstandingOf(users, books[i].BookID)) = books[i].TotalCopies

(* whole days in a difference of timestamps, the fraction dropped *)
WholeDays(ticks) ==
    CHOOSE e \in 0..MaxNow : e * TicksPerDay <= ticks /\ ticks < (e + 1) * TicksPerDay

(* C7: for every successful return the fine is max(0, (elapsed - 14) * 5),   *)
(* elapsed the whole days from the IssueDate of the first outstanding loan   *)
(* of the pair to the return time; the fine is 0 exactly when elapsed <= 14  *)
(* and it is reported only when it is > 0.                                   *)
C7_FineFormula ==
    [][ ReturnSucceeded =>
          LET open == OutstandingOfPair(users, last'.user_id, last'.book_id)
              k == CHOOSE i \in open : \A j \in open : i <= j
              elapsed == WholeDays(now - users[k].IssueDate)
          IN /\ fine' = (IF elapsed > 14 THEN (elapsed - 14) * 5 ELSE 0)
             /\ (fine' = 0) <=> (elapsed <= 14)
             /\ (\E m \in DOMAIN out' : out'[m] = "Late return. Fine") <=> (fine' > 0) ]_vars

C7_Witness ==
    /\ last.op = "return"
    /\ out = <<Returned, "Late return. Fine">>
    /\ fine = 5

(* C8: every error caused by user input (duplicate id or invalid copies on   *)
(* add-book, unknown book or no copy on issue, no active loan on return, an  *)
(* unrecognised choice) leaves Books, Loans and Logs as they were and the    *)
(* menu loop goes back to its head, from where the menu is shown again.      *)
ErrorMessages == { "Book ID already exists.", "Invalid number of copies.", "Book not found.",
                   "No copies available.", "No active issue found.",
                   "Invalid choice. Please try again." }

C8_ErrorsLeaveState ==
    [][ ( /\ Ran("add") \/ Ran("issue") \/ Ran("return") \/ Ran("invalid")
          /\ out'[1] \in ErrorMessages )
        => ( UNCHANGED <<books, users, logs>> /\ pc' = "loop" ) ]_vars

C8_Witness ==
    /\ pc = "loop"
    /\ last.op = "add"
    /\ out = <<"Book ID already exists.">>
    /\ users # <<>>
    /\ logs # <<>>

(* C9: add-book with a new id and copies >= 1 appends exactly one book row   *)
(* with TotalCopies = AvailableCopies = copies and leaves the existing rows  *)
(* unchanged; add-book with an id already present is rejected and the        *)
(* existing row is not altered.                                              *)
C9_AddBook ==
    [][ Ran("add") =>
          LET bid == last'.book_id
              copies == ParseInt(last'.copies)
              present == \E i \in DOMAIN books : books[i].BookID = bid
          IN /\ present => ( books' = books /\ out' = <<"Book ID already exists.">> )
             /\ ( ~present /\ copies.ok /\ copies.val >= 1 ) =>
                   /\ Len(books') = Len(books) + 1
                   /\ SubSeq(books', 1, Len(books)) = books
                   /\ books'[Len(books')].BookID = bid
                   /\ books'[Len(books')].TotalCopies = copies.val
                   /\ books'[Len(books')].AvailableCopies = copies.val ]_vars

C9_Witness ==
    /\ last.op = "add"
    /\ out = <<"Book ID already exists.">>
    /\ Len(books) = 2
    /\ \E i \in DOMAIN books : /\ books[i].BookID = last.book_id
                               /\ books[i].AvailableCopies < books[i].TotalCopies

(* C10: the audit log is append-only: every operation keeps the old entries  *)
(* as a prefix of the new log; a successful issue appends exactly one        *)
(* Issued entry, a successful return exactly one Returned entry, and failed  *)
(* operations and all other menu actions append nothing.                     *)
C10_LogAppendOnly ==
    [][ /\ Len(logs') >= Len(logs)
        /\ SubSeq(logs', 1, Len(logs)) = logs
        /\ IF IssueSucceeded
           THEN Len(logs') = Len(logs) + 1 /\ logs'[Len(logs')].Action = "Issued"
           ELSE IF ReturnSucceeded
           THEN Len(logs') = Len(logs) + 1 /\ logs'[Len(logs')].Action = "Returned"
           ELSE logs' = logs ]_vars

C10_Witness ==
    /\ last.op = "return"
    /\ out[1] = Returned
    /\ Len(logs) = 3
    /\ logs[1].Action = "Issued"
    /\ logs[3].Action = "Returned"

HeaderOf(n) == IF n = "BOOKS_FILE" THEN BooksHeader
               ELSE IF n = "USERS_FILE" THEN UsersHeader
               ELSE LogsHeader

(* a stored triple whose loans and log entries name stored books *)
ValidTriple(d) ==
    /\ \A n \in TableFiles : d[n].exists
    /\ \A k \in DOMAIN d["USERS_FILE"].rows :
          \E i \in DOMAIN d["BOOKS_FILE"].rows : d["BOOKS_FILE"].rows[i][1] = d["USERS_FILE"].rows[k][3]
    /\ \A k \in DOMAIN d["LOGS_FILE"].rows :
          \E i \in DOMAIN d["BOOKS_FILE"].rows : d["BOOKS_FILE"].rows[i][1] = d["LOGS_FILE"].rows[k][2]

(* C16: round trip: loading a valid triple of tables and saving it back      *)
(* leaves the stored tables as they were, same rows and same field values.   *)
C16_RoundTrip ==
    [][ ( Ran("exit") /\ ValidTriple(disk) ) =>
          \A n \in TableFiles : disk'[n] = disk[n] ]_vars

(* C17: ensure_files creates a table file, header only, exactly when it is   *)
(* missing, never changes a file that exists, and running it again changes   *)
(* nothing.                                                                  *)
C17_EnsureFilesKeepsFiles ==
    [][ pc = "start" =>
          /\ \A n \in TableFiles :
                IF disk[n].exists
                THEN disk'[n] = disk[n]
                ELSE disk'[n] = [exists |-> TRUE, header |-> HeaderOf(n), rows |-> <<>>]
          /\ disk'["EXPORT_FILE"] = disk["EXPORT_FILE"]
          /\ ensure_files(disk') = disk' ]_vars

(* the log file was missing and is created empty beside two kept files; the  *)
(* directory has been through a run before                                   *)
C17_Witness ==
    /\ pc = "loop"
    /\ last.op = "none"
    /\ disk["BOOKS_FILE"].rows # <<>>
    /\ disk["USERS_FILE"].rows # <<>>
    /\ disk["LOGS_FILE"] = [exists |-> TRUE, header |-> LogsHeader, rows |-> <<>>]

(* ------------------------- persistence and reports ----------------------- *)
StoredUnchanged == \A n \in TableFiles : disk'[n] = disk[n]

(* C11: the three table files are written only by choice 7: every other     *)
(* step of a session, failed operations and export included, leaves them as  *)
(* they were loaded; choice 7 saves the three in-memory tables and ends the  *)
(* loop, after which no step is taken.                                       *)
C11_SavedOnlyOnExit ==
    [][ /\ pc # "done"
        /\ (pc = "loop" \/ (pc = "menu" /\ last'.op # "exit")) => StoredUnchanged
        /\ Ran("exit") =>
              /\ disk'["BOOKS_FILE"] = BooksToCsv(books')
              /\ disk'["USERS_FILE"] = UsersToCsv(users')
              /\ disk'["LOGS_FILE"] = LogsToCsv(logs')
              /\ UNCHANGED <<books, users, logs>>
              /\ pc' = "done" ]_vars

(* the session ended after an add and an issue: all three files have rows *)
C11_Witness ==
    /\ pc = "done"
    /\ last.op = "exit"
    /\ Len(disk["BOOKS_FILE"].rows) = Len(books) /\ books # <<>>
    /\ Len(disk["USERS_FILE"].rows) = Len(users) /\ users # <<>>
    /\ Len(disk["LOGS_FILE"].rows) = Len(logs) /\ logs # <<>>

(* C12: view-inventory, top-borrowed and export leave the in-memory Books,   *)
(* Loans and Logs unchanged; export writes the whole current Logs table to   *)
(* the export file and leaves the three table files alone.                   *)
C12_ReportsReadOnly ==
    [][ /\ (Ran("view") \/ Ran("top") \/ Ran("export")) => UNCHANGED <<books, users, logs>>
        /\ Ran("export") =>
              /\ disk'["EXPORT_FILE"].exists
              /\ disk'["EXPORT_FILE"].header = LogsHeader
              /\ Len(disk'["EXPORT_FILE"].rows) = Len(logs)
              /\ \A i \in DOMAIN logs :
                    disk'["EXPORT_FILE"].rows[i] =
                        <<logs[i].UserID, logs[i].BookID, ActionToStr(logs[i].Action),
                          DateToStr(logs[i].Date)>>
              /\ StoredUnchanged ]_vars

(* an export of a log with entries, the primary log file still empty *)
C12_Witness ==
    /\ pc = "loop"
    /\ last.op = "export"
    /\ logs # <<>>
    /\ Len(disk["EXPORT_FILE"].rows) = Len(logs)
    /\ disk["LOGS_FILE"].rows = <<>>

(* ------------------------- keys and history ------------------------------ *)
(* C13: no two rows of the Books table have the same BookID, in every state  *)
(* reached from empty tables by add-book, issue and return.                  *)
C13_BookIdUnique ==
    \A i, j \in DOMAIN books : books[i].BookID = books[j].BookID => i = j

(* two books on the shelf, one of them lent, and a second add of an id       *)
(* already there turned away                                                 *)
C13_Witness ==
    /\ last.op = "add"
    /\ out = <<"Book ID already exists.">>
    /\ Len(books) = 2
    /\ users # <<>>

(* C15: after every operation each loan row's BookID is the BookID of a row  *)
(* of the Books table; an issue of an id that no book has prints "Book not   *)
(* found." and changes nothing.                                              *)
C15_LoansReferenceBooks ==
    [][ /\ \A k \in DOMAIN users' : \E i \in DOMAIN books' : books'[i].BookID = users'[k].BookID
        /\ ( Ran("issue") /\ \A i \in DOMAIN books : books[i].BookID # last'.book_id ) =>
              /\ out' = <<"Book not found.">>
              /\ UNCHANGED <<books, users, logs>> ]_vars

(* an issue of an unknown id turned away while another book is on loan *)
C15_Witness ==
    /\ last.op = "issue"
    /\ out = <<"Book not found.">>
    /\ books # <<>>
    /\ users # <<>>

LogCount(lgs, uid, bid, action) ==
    Cardinality({ k \in DOMAIN lgs : /\ lgs[k].UserID = uid
                                      /\ lgs[k].BookID = bid
                                      /\ lgs[k].Action = action })

(* C18: for every (UserID, BookID) pair the number of Issued log entries      *)
(* minus the number of Returned entries is the number of outstanding loans    *)
(* of the pair, and the number of Issued entries is the number of loan rows   *)
(* of the pair.                                                               *)
C18_LogMatchesLoans ==
    \A uid \in UserIds, bid \in BookIds :
        /\ LogCount(logs, uid, bid, "Issued") - LogCount(logs, uid, bid, "Returned")
              = Cardinality(OutstandingOfPair(users, uid, bid))
        /\ LogCount(logs, uid, bid, "Issued")
              = Cardinality({ k \in DOMAIN users : users[k].UserID = uid /\ users[k].BookID = bid })

(* C19: no step removes a loan row or a book row or changes a loan's UserID,  *)
(* BookID or IssueDate or a book's Title, Author or TotalCopies; a ReturnDate *)
(* that is set stays as it is.                                                *)
C19_HistoryMonotonic ==
    [][ /\ Len(users') >= Len(users)
        /\ Len(books') >= Len(books)
        /\ \A k \in DOMAIN users :
              /\ users'[k].UserID = users[k].UserID
              /\ users'[k].BookID = users[k].BookID
              /\ users'[k].IssueDate = users[k].IssueDate
              /\ users[k].ReturnDate # NaT => users'[k].ReturnDate = users[k].ReturnDate
        /\ \A i \in DOMAIN books :
              /\ books'[i].BookID = books[i].BookID
              /\ books'[i].Title = books[i].Title
              /\ books'[i].Author = books[i].Author
              /\ books'[i].TotalCopies = books[i].TotalCopies ]_vars

(* a loan returned on an earlier day is still as it was after a later return  *)
(* of another loan                                                            *)
C19_Witness ==
    /\ last.op = "return"
    /\ out[1] = Returned
    /\ \E k \in DOMAIN users : users[k].ReturnDate # NaT /\ users[k].ReturnDate < now
    /\ \E j \in DOMAIN users : users[j].ReturnDate = now

(* ------------------------------- the chart ------------------------------- *)
(* C14: the chart counts every loan row, returned or not, per BookID; it has  *)
(* at most five (label, count) pairs, the counts never rising along it, and   *)
(* no book left out of it has more loan rows than a book shown; the label of  *)
(* a book is its Title, or its BookID when the Books table has no row of it.  *)
C14_TopBorrowed ==
    [][ ( Ran("top") /\ users # <<>> ) =>
          LET ids == { users[k].BookID : k \in DOMAIN users }
              rows(b) == Cardinality({ k \in DOMAIN users : users[k].BookID = b })
              lab(b) == IF \E i \in DOMAIN books : books[i].BookID = b
                        THEN books[CHOOSE i \in DOMAIN books : books[i].BookID = b].Title
                        ELSE b
              shown == { b \in ids : \E k \in DOMAIN display' : display'[k].label = lab(b) }
          IN /\ Len(display') <= TopN
             /\ \A k \in DOMAIN display' :
                   \E b \in ids : display'[k].label = lab(b) /\ display'[k].count = rows(b)
             /\ \A j, k \in DOMAIN display' : j < k => display'[j].count >= display'[k].count
             /\ \A b \in ids \ shown : \A k \in DOMAIN display' : rows(b) <= display'[k].count ]_vars

(* six books were lent, one of them left out of a chart of five; a book      *)
(* lent twice stands before a book lent once; one label is a title and one   *)
(* a bare BookID; some loans were brought back                               *)
C14_Witness ==
    /\ pc = "loop"
    /\ last.op = "top"
    /\ Len(display) = TopN
    /\ Cardinality({ users[k].BookID : k \in DOMAIN users }) = TopN + 1
    /\ display[1].count > display[TopN].count
    /\ \E k \in DOMAIN display : \E i \in DOMAIN books : display[k].label = books[i].Title
    /\ \E k \in DOMAIN display : \E j \in DOMAIN users : display[k].label = users[j].BookID
    /\ \E j \in DOMAIN users : users[j].ReturnDate # NaT
====
